---- MODULE Spec2Model ----
(***************************************************************************)
(* A model of the execution engine of go-judge:                            *)
(*   - the environment pool and the cgroup pool       (runner/pool.go)     *)
(*   - Runner.Run and runOne                          (pkg/runner/run.go)  *)
(*   - copyOutAndCollect                              (envexec)            *)
(***************************************************************************)
EXTENDS Integers, Sequences, FiniteSets, TLC

(***************************************************************************)
(* Bounds of the model.                                                    *)
(***************************************************************************)
\* borrowers (goroutines) that call Get / Put / Shutdown on one pool
NThreads == 2
\* items the builder can produce before it only fails
MaxItems == 2
\* calls of Shutdown on one pool
MaxShutdown == 1

Threads == 1..NThreads
Items == 1..MaxItems
\* the nil item / the unlocked mutex
Nil == 0

VARIABLES
    kind,       \* which pool this is: "pool" (environments) or "wCgroupPool"
    env,        \* pool.env / wCgroupPool.cgs: the free list
    mu,         \* pool.mu / wCgroupPool.mu: Nil, or the thread that holds it
    built,      \* items the builder has produced so far (their ids are 1..built)
    destroyed,  \* per item: how many times Destroy / Destory was called on it
    resetFailed,\* per item: whether its last Reset returned an error
    shutdowns,  \* Shutdown calls that have returned
    tpc,        \* per thread: where it is in Get / Put / Shutdown
    held,       \* per thread: the items it has borrowed and not yet Put
    arg,        \* per thread: Put's argument, or Get's local rt
    ret,        \* per thread: what its last Get returned
    ghost,      \* per thread: what the current Get saw when it took the lock
    putOrder,   \* history: the items Put and not handed out since, oldest first
    resetCalled \* per item: Reset has been called on it since it was last handed out

poolVars == <<kind, env, mu, built, destroyed, resetFailed, shutdowns,
              tpc, held, arg, ret, ghost, putOrder, resetCalled>>

VARIABLES
    cmds,       \* Runner.Cmds: the commands of this Run, with the program each runs
    runPc,      \* where Run is
    ms,         \* Run's ms: the environments obtained from the pool, in order
    cgs,        \* Run's cgs: the cgroups built, in order
    cgBuilt,    \* cgroups CGBuilder has produced so far (their ids are 1..cgBuilt)
    defers,     \* Run's deferred calls, the last registered at the end
    result,     \* Run's result slice (<<>> while it is nil)
    errC,       \* Run's errC, a channel of capacity 1
    err,        \* the error Run returns ("" is nil)
    wg,         \* Run's WaitGroup counter
    fileToClose,\* Run's fileToClose: the commands whose prepared files it holds
    fdClosed,   \* per command: how many times its prepared files were closed
    envPuts,    \* per environment: how many times this Run Put it back
    cgDestroys, \* per cgroup: how many times this Run destroyed it
    pc,         \* per command: where Run's goroutine (and its runOne call) is
    wpc,        \* per command: where runOne's waiter goroutine is
    rpc,        \* per command: where runOne's result goroutine is
    child,      \* per command: the child process, "none", "running" or "exited"
    ctxDone,    \* per command: runOne's ctx is cancelled
    waiterCtxDone, \* per command: runOne's waiterCtx is cancelled
    tle,        \* per command: runOne's tle
    cgLimit,    \* per command: the memory limit programmed into its cgroup
    rt,         \* per command: the runner result received from rc
    re,         \* per command: the Result being composed
    pending,    \* per command: copyOutAndCollect's tasks still running
    files,      \* per command: copyOutAndCollect's rt, the files collected
    copyErr,    \* per command: the errgroup's first error ("" is nil)
    usageErr,   \* per command: reading the cgroup's CPU time or memory failed
    resultCh,   \* per command: runOne's result channel, of capacity 1
    copyInWg,   \* per command: copyIn's WaitGroup counter
    copyInErrC, \* per command: copyIn's errC, a channel of capacity 1
    tleUsed     \* per command: the value of tle the result goroutine read

runVars == <<cmds, runPc, ms, cgs, cgBuilt, defers, result, errC, err, wg,
             fileToClose, fdClosed, envPuts, cgDestroys>>

oneVars == <<pc, wpc, rpc, child, ctxDone, waiterCtxDone, tle, cgLimit, rt, re,
             pending, files, copyErr, usageErr, resultCh,
             copyInWg, copyInErrC, tleUsed>>

VARIABLES
    pfPc,       \* where prefork is
    pfN,        \* prefork's argument
    pfM,        \* prefork's m: the environments it obtained
    pfI         \* how many elements of m prefork has Put back

pfVars == <<pfPc, pfN, pfM, pfI>>

VARIABLES
    conf,       \* the configuration: AuthToken, EnableMetrics, EnableDebug, Silent
    muxPc,      \* where initHTTPMux is
    handlers,   \* r.Handlers: the middleware attached to the engine so far
    routes,     \* the routes registered so far, each with its handler chain
    req,        \* the last request served
    resp        \* the response to it

httpVars == <<conf, muxPc, handlers, routes, req, resp>>

VARIABLES
    written     \* history: the errors passed to writeErrorC, in the order of the calls

histVars == <<written>>

VARIABLES
    proc,       \* the process p that newProcess made: its fields rt, done, cg
    npg,        \* the goroutine of newProcess: where it is, ch, cgPool, its defers
    obs         \* what the callers of p.Result() and p.Usage() last got

procVars == <<proc, npg, obs>>

VARIABLES
    mainPc,     \* where main is, from its wait for the interrupt signal on
    grpcServer, \* main's grpcServer is not nil (conf.EnableGRPC)
    sdCtx,      \* main's ctx: "none", "live", "timeout" or "cancelled"
    eg,         \* per task of main's errgroup: "none", "running" or "returned"
    egErr,      \* the errgroup's first error ("" is nil)
    egWait      \* the goroutine that calls eg.Wait() and then cancel()

sdVars == <<mainPc, grpcServer, sdCtx, eg, egErr, egWait>>

\* everything outside the pools and Run, but for the history of writeErrorC
auxRest == <<pfVars, httpVars, procVars, sdVars>>

auxVars == <<auxRest, histVars>>

vars == <<poolVars, runVars, oneVars, auxVars>>

(***************************************************************************)
(* Helpers on sequences.                                                   *)
(***************************************************************************)
Range(s) == {s[i] : i \in 1..Len(s)}

NoDup(s) == \A i, j \in 1..Len(s) : i # j => s[i] # s[j]

Without(s, x) == SelectSeq(s, LAMBDA y : y # x)

\* how many times x occurs in s
Occurrences(s, x) == Cardinality({i \in 1..Len(s) : s[i] = x})

(***************************************************************************)
(* sync.Mutex                                                              *)
(***************************************************************************)
AcquireUnguarded(t) == TRUE

\* mu.Lock() returns for thread t only when nobody holds the mutex
Acquire(t) == mu = Nil

(***************************************************************************)
(* The free list: Get takes from the end, Put appends at the end.          *)
(***************************************************************************)
GetTopFifo(list) == list[1]

\* rt := p.env[len(p.env)-1]
GetTop(list) == list[Len(list)]

\* p.env = p.env[:len(p.env)-1]
DropTop(list) == SubSeq(list, 1, Len(list) - 1)

NoRet == [item |-> Nil, err |-> FALSE]
NoGhost == [sawEmpty |-> FALSE, expect |-> Nil, afterShutdown |-> FALSE,
            builds |-> 0, envAtLock |-> <<>>]

(***************************************************************************)
(* Data of a Run: statuses, commands, programs, results.                   *)
(***************************************************************************)
\* commands of one Run
NCmds == 2
\* Cmd.MemoryLimit of the modelled commands
MemLimit == 1
\* the limit (pipe.Buffer.Max) of the modelled pipe collector
MaxOut == 1
\* the copy-in files of a command that has any
MaxCopyIn == 2
\* the width of the unsigned size type, scaled down from 64 bits
WordBits == 16

\* the runner's raw statuses (go-sandbox types.Status); "RunnerError" stands
\* for every status convertStatus has no case for
RawStatuses == {"Normal", "Signalled", "NonzeroExitStatus", "MemoryLimitExceeded",
                "TimeLimitExceeded", "OutputLimitExceeded", "DisallowedSyscall",
                "RunnerError"}

\* what a copy-out path names inside the container after the run
FileKinds == {"regular", "toolarge", "symlink", "missing"}

\* What the program of a command does, as far as runOne can observe it:
\*   status, error, memory  the raw runner result delivered on rc
\*   out                    the bytes it wrote to its pipe collector
\*   peak                   the peak memory its cgroup measured
\*   file                   what its copy-out path names
Programs == [status : RawStatuses, error : BOOLEAN, memory : {0, MemLimit + 1},
             out : 0..(MaxOut + 2), peak : 0..(MemLimit + 1), file : FileKinds]

\* the programs of the commands of a group: one that exits normally within
\* its limits, one that is signalled after exceeding them
GoodProgram ==
    [status |-> "Normal", error |-> FALSE, memory |-> 0,
     out |-> MaxOut, peak |-> MemLimit, file |-> "regular"]
BadProgram ==
    [status |-> "Signalled", error |-> FALSE, memory |-> 0,
     out |-> MaxOut + 1, peak |-> MemLimit + 1, file |-> "symlink"]

\* a Cmd: its memory limit, the number of its copy-in files, its copy-out
\* paths, its pipe collectors (the limit of each), and the program its Args run
CmdWith(limit, prog, copyIn) ==
    [MemoryLimit |-> limit, CopyIn |-> copyIn, CopyOut |-> <<"out">>,
     Collectors |-> <<MaxOut>>, Args |-> prog]

Cmd(prog, copyIn) == CmdWith(MemLimit, prog, copyIn)

CmdIds == 1..Len(cmds)

\* the zero value of Result
ZeroResult == [cmd |-> 0, Status |-> "Zero", Error |-> FALSE, Time |-> "zero",
               Memory |-> 0, Files |-> {}]
ZeroRaw == [Status |-> "Zero", Error |-> FALSE, Time |-> "zero", Memory |-> 0]

\* the run variables of a pool that no Run uses
NoRun ==
    /\ cmds = <<>>
    /\ runPc = "none"
    /\ ms = <<>>
    /\ cgs = <<>>
    /\ cgBuilt = 0
    /\ defers = <<>>
    /\ result = <<>>
    /\ errC = <<>>
    /\ err = ""
    /\ wg = 0
    /\ fileToClose = {}
    /\ fdClosed = <<>>
    /\ envPuts = [x \in Items |-> 0]
    /\ cgDestroys = <<>>
    /\ pc = <<>>
    /\ wpc = <<>>
    /\ rpc = <<>>
    /\ child = <<>>
    /\ ctxDone = <<>>
    /\ waiterCtxDone = <<>>
    /\ tle = <<>>
    /\ cgLimit = <<>>
    /\ rt = <<>>
    /\ re = <<>>
    /\ pending = <<>>
    /\ files = <<>>
    /\ copyErr = <<>>
    /\ usageErr = <<>>
    /\ resultCh = <<>>
    /\ copyInWg = <<>>
    /\ copyInErrC = <<>>
    /\ tleUsed = <<>>

\* prefork is not running
NoPrefork ==
    /\ pfPc = "none"
    /\ pfN = 0
    /\ pfM = <<>>
    /\ pfI = 0

\* no HTTP server
NoHttp ==
    /\ conf = [AuthToken |-> <<>>, EnableMetrics |-> FALSE, EnableDebug |-> FALSE,
               Silent |-> FALSE]
    /\ muxPc = "none"
    /\ handlers = <<>>
    /\ routes = {}
    /\ req = [path |-> "", header |-> <<>>]
    /\ resp = [status |-> 0, ran |-> <<>>]

\* writeErrorC has not been called
NoHist == written = <<>>

\* what a runner result or a usage says, by where its figures come from
NoUsage == [Time |-> "none", Memory |-> "none"]

\* newProcess has not been called
NoProc ==
    /\ proc = [rt |-> NoUsage, done |-> FALSE, cg |-> Nil]
    /\ npg = [pc |-> "none", ch |-> <<>>, cgPool |-> FALSE, defers |-> <<>>, puts |-> 0]
    /\ obs = [result |-> NoUsage, usage |-> NoUsage]

\* the tasks of main's errgroup
EgTasks == {"worker", "http", "grpc"}

\* main is not modelled
NoShutdown ==
    /\ mainPc = "none"
    /\ grpcServer = FALSE
    /\ sdCtx = "none"
    /\ eg = [k \in EgTasks |-> "none"]
    /\ egErr = ""
    /\ egWait = "none"

NoAux == NoPrefork /\ NoHttp /\ NoHist /\ NoProc /\ NoShutdown

RunIdle == UNCHANGED <<runVars, oneVars, auxVars>>

\* a new pool
EmptyPool ==
    /\ env = <<>>
    /\ mu = Nil
    /\ built = 0
    /\ destroyed = [x \in Items |-> 0]
    /\ resetFailed = [x \in Items |-> FALSE]
    /\ shutdowns = 0
    /\ tpc = [t \in Threads |-> "idle"]
    /\ held = [t \in Threads |-> {}]
    /\ arg = [t \in Threads |-> Nil]
    /\ ret = [t \in Threads |-> NoRet]
    /\ ghost = [t \in Threads |-> NoGhost]
    /\ putOrder = <<>>
    /\ resetCalled = [x \in Items |-> FALSE]

InitPool ==
    /\ kind \in {"pool", "wCgroupPool"}
    /\ EmptyPool
    /\ NoRun
    /\ NoAux

(***************************************************************************)
(* Get                                                                     *)
(***************************************************************************)
\* p.mu.Lock() at the top of Get
GetLock(t) ==
    /\ tpc[t] = "idle"
    /\ Acquire(t)
    /\ mu' = t
    /\ tpc' = [tpc EXCEPT ![t] = "get_cs"]
    /\ ghost' = [ghost EXCEPT ![t] =
                    [sawEmpty |-> Len(env) = 0,
                     expect |-> IF Len(putOrder) > 0 THEN putOrder[Len(putOrder)] ELSE Nil,
                     afterShutdown |-> shutdowns > 0,
                     builds |-> 0,
                     envAtLock |-> env]]
    /\ UNCHANGED <<kind, env, built, destroyed, resetFailed, resetCalled, shutdowns, held, arg, ret, putOrder>>
    /\ RunIdle

\* if len(p.env) > 0 { rt := p.env[len(p.env)-1]
GetRead(t) ==
    /\ tpc[t] = "get_cs"
    /\ Len(env) > 0
    /\ arg' = [arg EXCEPT ![t] = GetTop(env)]
    /\ tpc' = [tpc EXCEPT ![t] = "get_pop"]
    /\ UNCHANGED <<kind, env, mu, built, destroyed, resetFailed, resetCalled, shutdowns, held, ret, ghost, putOrder>>
    /\ RunIdle

\* p.env = p.env[:len(p.env)-1]; return rt, nil }
GetPop(t) ==
    /\ tpc[t] = "get_pop"
    /\ env' = DropTop(env)
    /\ ret' = [ret EXCEPT ![t] = [item |-> arg[t], err |-> FALSE]]
    /\ putOrder' = Without(putOrder, arg[t])
    /\ resetCalled' = [resetCalled EXCEPT ![arg[t]] = FALSE]
    /\ tpc' = [tpc EXCEPT ![t] = "get_ret"]
    /\ UNCHANGED <<kind, mu, built, destroyed, resetFailed, shutdowns, held, arg, ghost>>
    /\ RunIdle

\* return p.builder.Build(): the builder produces a new item, or fails
GetBuild(t) ==
    /\ tpc[t] = "get_cs"
    /\ Len(env) = 0
    /\ ghost' = [ghost EXCEPT ![t].builds = @ + 1]
    /\ \/ /\ built < MaxItems
          /\ built' = built + 1
          /\ ret' = [ret EXCEPT ![t] = [item |-> built + 1, err |-> FALSE]]
       \/ /\ built' = built
          /\ ret' = [ret EXCEPT ![t] = [item |-> Nil, err |-> TRUE]]
    /\ tpc' = [tpc EXCEPT ![t] = "get_ret"]
    /\ UNCHANGED <<kind, env, mu, destroyed, resetFailed, resetCalled, shutdowns, held, arg, putOrder>>
    /\ RunIdle

\* the deferred p.mu.Unlock(); the caller now owns what Get returned
GetReturn(t) ==
    /\ tpc[t] = "get_ret"
    /\ mu' = Nil
    /\ held' = [held EXCEPT ![t] = IF ret[t].err THEN @ ELSE @ \cup {ret[t].item}]
    /\ arg' = [arg EXCEPT ![t] = Nil]
    /\ ret' = [ret EXCEPT ![t] = NoRet]
    /\ ghost' = [ghost EXCEPT ![t] = NoGhost]
    /\ tpc' = [tpc EXCEPT ![t] = "idle"]
    /\ UNCHANGED <<kind, env, built, destroyed, resetFailed, resetCalled, shutdowns, putOrder>>
    /\ RunIdle

(***************************************************************************)
(* Put                                                                     *)
(***************************************************************************)
\* Put(x) is called by the borrower of x.  pool.Put calls env.Reset() before
\* it takes the lock and ignores what Reset returns.
PutBegin(t, x) ==
    /\ tpc[t] = "idle"
    /\ x \in held[t]
    /\ held' = [held EXCEPT ![t] = @ \ {x}]
    /\ arg' = [arg EXCEPT ![t] = x]
    /\ IF kind = "pool"
          THEN /\ \E failed \in BOOLEAN : resetFailed' = [resetFailed EXCEPT ![x] = failed]
               /\ resetCalled' = [resetCalled EXCEPT ![x] = TRUE]
          ELSE UNCHANGED <<resetFailed, resetCalled>>
    /\ tpc' = [tpc EXCEPT ![t] = "put_wait"]
    /\ UNCHANGED <<kind, env, mu, built, destroyed, shutdowns, ret, ghost, putOrder>>
    /\ RunIdle

\* p.mu.Lock() in Put
PutLock(t) ==
    /\ tpc[t] = "put_wait"
    /\ Acquire(t)
    /\ mu' = t
    /\ tpc' = [tpc EXCEPT ![t] = "put_cs"]
    /\ UNCHANGED <<kind, env, built, destroyed, resetFailed, resetCalled, shutdowns, held, arg, ret, ghost, putOrder>>
    /\ RunIdle

\* wCgroupPool.Put calls c.Reset() under the lock, ignoring what it returns;
\* both pools then append the item and unlock.
PutAppend(t) ==
    /\ tpc[t] = "put_cs"
    /\ IF kind = "wCgroupPool"
          THEN /\ \E failed \in BOOLEAN :
                     resetFailed' = [resetFailed EXCEPT ![arg[t]] = failed]
               /\ resetCalled' = [resetCalled EXCEPT ![arg[t]] = TRUE]
          ELSE UNCHANGED <<resetFailed, resetCalled>>
    /\ env' = Append(env, arg[t])
    /\ putOrder' = Append(Without(putOrder, arg[t]), arg[t])
    /\ mu' = Nil
    /\ arg' = [arg EXCEPT ![t] = Nil]
    /\ tpc' = [tpc EXCEPT ![t] = "idle"]
    /\ UNCHANGED <<kind, built, destroyed, shutdowns, held, ret, ghost>>
    /\ RunIdle

(***************************************************************************)
(* Shutdown                                                                *)
(***************************************************************************)
\* p.mu.Lock() in Shutdown
ShutdownLock(t) ==
    /\ tpc[t] = "idle"
    /\ shutdowns < MaxShutdown
    /\ \A u \in Threads : tpc[u] \notin {"shutdown_cs", "shutdown_ret"}
    /\ Acquire(t)
    /\ mu' = t
    /\ tpc' = [tpc EXCEPT ![t] = "shutdown_cs"]
    /\ UNCHANGED <<kind, env, built, destroyed, resetFailed, resetCalled, shutdowns, held, arg, ret, ghost, putOrder>>
    /\ RunIdle

\* for _, e := range p.env { p.Destroy(e) }: the list itself is left as it is
ShutdownBody(t) ==
    /\ tpc[t] = "shutdown_cs"
    /\ destroyed' = [x \in Items |-> destroyed[x] + Occurrences(env, x)]
    /\ tpc' = [tpc EXCEPT ![t] = "shutdown_ret"]
    /\ UNCHANGED <<kind, env, mu, built, resetFailed, resetCalled, shutdowns, held, arg, ret, ghost, putOrder>>
    /\ RunIdle

\* the deferred p.mu.Unlock() of Shutdown
ShutdownReturn(t) ==
    /\ tpc[t] = "shutdown_ret"
    /\ mu' = Nil
    /\ shutdowns' = shutdowns + 1
    /\ tpc' = [tpc EXCEPT ![t] = "idle"]
    /\ UNCHANGED <<kind, env, built, destroyed, resetFailed, resetCalled, held, arg, ret, ghost, putOrder>>
    /\ RunIdle

\* a step of borrower t
PoolStep(t) ==
    \/ GetLock(t)
    \/ GetRead(t)
    \/ GetPop(t)
    \/ GetBuild(t)
    \/ GetReturn(t)
    \/ \E x \in Items : PutBegin(t, x)
    \/ PutLock(t)
    \/ PutAppend(t)
    \/ ShutdownLock(t)
    \/ ShutdownBody(t)
    \/ ShutdownReturn(t)

NextPool == \E t \in Threads : PoolStep(t)

SpecPool == InitPool /\ [][NextPool]_vars

(***************************************************************************)
(* pool.Release                                                            *)
(***************************************************************************)
\* Destroy calls on one item after which Release is no longer followed
MaxDestroyed == 2

\* p.mu.Lock() in Release, which only the environment pool has
ReleaseLock(t) ==
    /\ tpc[t] = "idle"
    /\ kind = "pool"
    /\ \A x \in Items : destroyed[x] < MaxDestroyed
    /\ Acquire(t)
    /\ mu' = t
    /\ tpc' = [tpc EXCEPT ![t] = "release_cs"]
    /\ UNCHANGED <<kind, env, built, destroyed, resetFailed, resetCalled, shutdowns, held, arg, ret, ghost, putOrder>>
    /\ RunIdle

\* for _, e := range p.env { p.Destroy(e) }: the list itself is left as it is
ReleaseBody(t) ==
    /\ tpc[t] = "release_cs"
    /\ destroyed' = [x \in Items |-> destroyed[x] + Occurrences(env, x)]
    /\ tpc' = [tpc EXCEPT ![t] = "release_ret"]
    /\ UNCHANGED <<kind, env, mu, built, resetFailed, resetCalled, shutdowns, held, arg, ret, ghost, putOrder>>
    /\ RunIdle

\* the deferred p.mu.Unlock() of Release
ReleaseReturn(t) ==
    /\ tpc[t] = "release_ret"
    /\ mu' = Nil
    /\ tpc' = [tpc EXCEPT ![t] = "idle"]
    /\ UNCHANGED <<kind, env, built, destroyed, resetFailed, resetCalled, shutdowns, held, arg, ret, ghost, putOrder>>
    /\ RunIdle

NextRelease ==
    \/ \E t \in Threads : PoolStep(t)
    \/ \E t \in Threads : ReleaseLock(t)
    \/ \E t \in Threads : ReleaseBody(t)
    \/ \E t \in Threads : ReleaseReturn(t)

\* a pool whose borrowers also call Release
SpecRelease == InitPool /\ [][NextRelease]_vars

(***************************************************************************)
(* Runner.Run and runOne.                                                  *)
(***************************************************************************)
\* var memoryLimitExtra uint64 = 16 << 10
memoryLimitExtra == 16384

\* the addition of two values of the unsigned size type
AddU64(a, b) == (a + b) % (2 ^ WordBits)

\* uint64(c.MemoryLimit) + memoryLimitExtra
CgroupLimit(limit) == AddU64(limit, memoryLimitExtra)

\* convertStatus: the runner's raw status to the published status
convertStatus(s) ==
    CASE s = "Normal" -> "Accepted"
      [] s \in {"Signalled", "NonzeroExitStatus"} -> "RuntimeError"
      [] s = "MemoryLimitExceeded" -> "MemoryLimitExceeded"
      [] s = "TimeLimitExceeded" -> "TimeLimitExceeded"
      [] s = "OutputLimitExceeded" -> "OutputLimitExceeded"
      [] s = "DisallowedSyscall" -> "DangerousSyscall"
      [] OTHER -> "InternalError"

\* the runner result the container delivers on rc for a program
RawResult(prog) ==
    [Status |-> prog.status, Error |-> prog.error, Time |-> "runner",
     Memory |-> prog.memory]

\* re := Result{Status: convertStatus(rt.Status), Error: rt.Error, ...}
BaseResult(i, r, f) ==
    [cmd |-> i, Status |-> convertStatus(r.Status), Error |-> r.Error,
     Time |-> r.Time, Memory |-> r.Memory, Files |-> f]

\* if err != nil && re.Error == "" { switch err.(type) ... }
CollectError(res, e) ==
    IF e # "" /\ ~res.Error
       THEN [res EXCEPT !.Status = IF e \in RawStatuses THEN convertStatus(e)
                                                         ELSE "InternalError",
                        !.Error = TRUE]
       ELSE res

\* cpuUsage, err := cg.CpuacctUsage()
ReadTime(res, failed) ==
    IF failed
       THEN [res EXCEPT !.Status = "InternalError", !.Error = TRUE]
       ELSE [res EXCEPT !.Time = "cgroup"]

\* memoryUsage, err := cg.MemoryMaxUsageInBytes()
ReadMemory(res, failed, peak) ==
    IF failed
       THEN [res EXCEPT !.Status = "InternalError", !.Error = TRUE]
       ELSE [res EXCEPT !.Memory = peak]

\* if tle { re.Status = types.StatusTimeLimitExceeded }
OverrideTle(res, t) ==
    IF t THEN [res EXCEPT !.Status = "TimeLimitExceeded"] ELSE res

\* if re.Memory > c.MemoryLimit { re.Status = types.StatusMemoryLimitExceeded }
OverrideMemory(res, limit) ==
    IF res.Memory > limit THEN [res EXCEPT !.Status = "MemoryLimitExceeded"] ELSE res

\* pipe.Buffer reads at most Max + 1 bytes of what the producer wrote
BufferLen(out, max) == IF out > max THEN max + 1 ELSE out

\* the tasks copyOutAndCollect starts for a command
CopyTasks(c) ==
    {<<"file", k>> : k \in 1..Len(c.CopyOut)} \cup
    {<<"pipe", k>> : k \in 1..Len(c.Collectors)}

\* a collector task: wait for the buffer, compare its length with Max
CollectPipe(c, k) ==
    LET n == BufferLen(c.Args.out, c.Collectors[k])
    IN  IF n > c.Collectors[k]
           THEN [err |-> "OutputLimitExceeded", file |-> {}]
           ELSE [err |-> "", file |-> {[name |-> <<"pipe", k>>, len |-> n]}]

\* a copy-out task: open, stat, check regular file and size, read
CopyOutFile(c, k) ==
    IF c.Args.file = "regular"
       THEN [err |-> "", file |-> {[name |-> <<"file", k>>, len |-> 1]}]
       ELSE [err |-> "error", file |-> {}]

TaskOutcome(c, task) ==
    IF task[1] = "pipe" THEN CollectPipe(c, task[2]) ELSE CopyOutFile(c, task[2])

\* the Cmds of a group: the first copies files in, the odd ones run the good
\* program, the even ones the bad one; the first two have a file to copy
\* out and a pipe to collect, the later ones have nothing to collect
GroupCmd(k) ==
    LET c == IF k % 2 = 1 THEN Cmd(GoodProgram, IF k = 1 THEN MaxCopyIn ELSE 0)
                          ELSE Cmd(BadProgram, 0)
    IN  IF k <= 2 THEN c ELSE [c EXCEPT !.CopyOut = <<>>, !.Collectors = <<>>]

\* the state at the call of Run on commands cs, the pool holding the pre
\* environments that prefork built
InitRunWith(cs, pre) ==
    /\ kind = "pool"
    /\ env = [x \in 1..pre |-> x]
    /\ mu = Nil
    /\ built = pre
    /\ destroyed = [x \in Items |-> 0]
    /\ resetFailed = [x \in Items |-> FALSE]
    /\ shutdowns = 0
    /\ tpc = [t \in Threads |-> "idle"]
    /\ held = [t \in Threads |-> {}]
    /\ arg = [t \in Threads |-> Nil]
    /\ ret = [t \in Threads |-> NoRet]
    /\ ghost = [t \in Threads |-> NoGhost]
    /\ putOrder = [x \in 1..pre |-> x]
    /\ resetCalled = [x \in Items |-> x <= pre]
    /\ NoAux
    /\ cmds = cs
    /\ runPc = "start"
    /\ ms = <<>>
    /\ cgs = <<>>
    /\ cgBuilt = 0
    /\ defers = <<>>
    /\ result = <<>>
    /\ errC = <<>>
    /\ err = ""
    /\ wg = 0
    /\ fileToClose = {}
    /\ fdClosed = [i \in 1..Len(cs) |-> 0]
    /\ envPuts = [x \in Items |-> 0]
    /\ cgDestroys = [x \in 1..Len(cs) |-> 0]
    /\ pc = [i \in 1..Len(cs) |-> "none"]
    /\ wpc = [i \in 1..Len(cs) |-> "none"]
    /\ rpc = [i \in 1..Len(cs) |-> "none"]
    /\ child = [i \in 1..Len(cs) |-> "none"]
    /\ ctxDone = [i \in 1..Len(cs) |-> FALSE]
    /\ waiterCtxDone = [i \in 1..Len(cs) |-> FALSE]
    /\ tle = [i \in 1..Len(cs) |-> FALSE]
    /\ cgLimit = [i \in 1..Len(cs) |-> 0]
    /\ rt = [i \in 1..Len(cs) |-> ZeroRaw]
    /\ re = [i \in 1..Len(cs) |-> ZeroResult]
    /\ pending = [i \in 1..Len(cs) |-> {}]
    /\ files = [i \in 1..Len(cs) |-> {}]
    /\ copyErr = [i \in 1..Len(cs) |-> ""]
    /\ usageErr = [i \in 1..Len(cs) |-> FALSE]
    /\ resultCh = [i \in 1..Len(cs) |-> <<>>]
    /\ copyInWg = [i \in 1..Len(cs) |-> 0]
    /\ copyInErrC = [i \in 1..Len(cs) |-> <<>>]
    /\ tleUsed = [i \in 1..Len(cs) |-> FALSE]

\* a Run of a group of NCmds commands, on an empty pool or after prefork(1)
InitRun == \E pre \in {0, 1} : InitRunWith([k \in 1..NCmds |-> GroupCmd(k)], pre)

\* a Run of one command, running any program, on an empty pool
InitOne == \E p \in Programs, ci \in {0, MaxCopyIn} : InitRunWith(<<Cmd(p, ci)>>, 0)

poolRest == <<kind, mu, destroyed, shutdowns, tpc, held, arg, ret, ghost, putOrder>>

\* defer closeFiles(fileToClose); fds, pipeToCollect, fileToClose, err := prepareFds(r).
\* When prepareFds fails, fileToClose is what it returned: the files of the
\* commands it had prepared.
RunPrepareFds ==
    /\ runPc = "start"
    /\ \/ /\ fileToClose' = CmdIds
          /\ defers' = <<[op |-> "closeFiles", id |-> 0]>>
          /\ runPc' = "getEnv"
          /\ err' = err
       \/ /\ \E k \in 0..(Len(cmds) - 1) : fileToClose' = 1..k
          /\ defers' = <<[op |-> "closeFiles", id |-> 0]>>
          /\ runPc' = "defer"
          /\ err' = "prepareFds"
    /\ UNCHANGED <<auxVars, poolRest, env, built, resetFailed, resetCalled, cmds, ms, cgs, cgBuilt, result,
                   errC, wg, fdClosed, envPuts, cgDestroys, oneVars>>

\* where Run goes once it holds an environment per command
AfterGetEnv(got) == IF Len(got) = Len(cmds) THEN "buildCg" ELSE "getEnv"

\* m, err := r.EnvironmentPool.Get(); defer r.EnvironmentPool.Put(m)
RunGetEnv ==
    /\ runPc = "getEnv"
    /\ \/ /\ Len(env) > 0
          /\ env' = DropTop(env)
          /\ built' = built
          /\ resetCalled' = [resetCalled EXCEPT ![GetTop(env)] = FALSE]
          /\ ms' = Append(ms, GetTop(env))
          /\ defers' = Append(defers, [op |-> "Put", id |-> GetTop(env)])
          /\ runPc' = AfterGetEnv(ms')
          /\ err' = err
       \/ /\ Len(env) = 0
          /\ built < MaxItems
          /\ env' = env
          /\ built' = built + 1
          /\ resetCalled' = resetCalled
          /\ ms' = Append(ms, built + 1)
          /\ defers' = Append(defers, [op |-> "Put", id |-> built + 1])
          /\ runPc' = AfterGetEnv(ms')
          /\ err' = err
       \/ /\ Len(env) = 0
          /\ UNCHANGED <<env, built, ms, defers, resetCalled>>
          /\ runPc' = "defer"
          /\ err' = "get"
    /\ UNCHANGED <<auxVars, poolRest, resetFailed, cmds, cgs, cgBuilt, result, errC, wg,
                   fileToClose, fdClosed, envPuts, cgDestroys, oneVars>>

\* cg, err := r.CGBuilder.Build(); defer cg.Destroy()
RunBuildCg ==
    /\ runPc = "buildCg"
    /\ \/ /\ cgBuilt' = cgBuilt + 1
          /\ cgs' = Append(cgs, cgBuilt + 1)
          /\ defers' = Append(defers, [op |-> "Destroy", id |-> cgBuilt + 1])
          /\ runPc' = IF Len(cgs') = Len(cmds) THEN "go" ELSE "buildCg"
          /\ err' = err
       \/ /\ UNCHANGED <<cgBuilt, cgs, defers>>
          /\ runPc' = "defer"
          /\ err' = "build"
    /\ UNCHANGED <<auxVars, poolRest, env, built, resetFailed, resetCalled, cmds, ms, result, errC, wg,
                   fileToClose, fdClosed, envPuts, cgDestroys, oneVars>>

\* wg.Add(len(r.Cmds)); result := make(...); errC := make(chan error, 1);
\* one goroutine per command
RunGo ==
    /\ runPc = "go"
    /\ wg' = Len(cmds)
    /\ result' = [i \in CmdIds |-> ZeroResult]
    /\ errC' = <<>>
    /\ pc' = [i \in CmdIds |-> "runOne"]
    /\ runPc' = "wait"
    /\ UNCHANGED <<auxVars, poolRest, env, built, resetFailed, resetCalled, cmds, ms, cgs, cgBuilt, defers, err,
                   fileToClose, fdClosed, envPuts, cgDestroys,
                   wpc, rpc, child, ctxDone, waiterCtxDone, tle, cgLimit, rt, re,
                   pending, files, copyErr, usageErr, copyInWg, copyInErrC, tleUsed, resultCh>>

WriteErrorCKeepsLast(ch, e) == <<e>>

\* select { case errC <- err: default: }: the error is sent when the channel
\* of capacity 1 has room and dropped otherwise; the call never blocks
WriteErrorC(ch, e) == IF Len(ch) < 1 THEN Append(ch, e) ELSE ch

\* runOne returns an error: its deferred closeFiles(fdToClose) runs, the
\* goroutine of Run writes the error to errC if there is room and returns,
\* and its deferred wg.Done() runs
FailRunOne(i, e) ==
    /\ fdClosed' = [fdClosed EXCEPT ![i] = @ + 1]
    /\ errC' = WriteErrorC(errC, e)
    /\ written' = Append(written, e)
    /\ wg' = wg - 1
    /\ pc' = [pc EXCEPT ![i] = "failed"]

\* cg.SetMemoryLimitInBytes(uint64(c.MemoryLimit) + memoryLimitExtra); cg.SetPidsMax(c.PidLimit)
RunOneLimits(i) ==
    /\ pc[i] = "runOne"
    /\ \/ /\ cgLimit' = [cgLimit EXCEPT ![i] = CgroupLimit(cmds[i].MemoryLimit)]
          /\ pc' = [pc EXCEPT ![i] = "copyIn"]
          /\ UNCHANGED <<fdClosed, errC, wg, written>>
       \/ /\ cgLimit' = cgLimit
          /\ FailRunOne(i, "SetMemoryLimitInBytes")
       \/ /\ cgLimit' = [cgLimit EXCEPT ![i] = CgroupLimit(cmds[i].MemoryLimit)]
          /\ FailRunOne(i, "SetPidsMax")
    /\ UNCHANGED <<auxRest, poolVars, cmds, runPc, ms, cgs, cgBuilt, defers, result, err,
                   fileToClose, envPuts, cgDestroys,
                   wpc, rpc, child, ctxDone, waiterCtxDone, tle, rt, re,
                   pending, files, copyErr, usageErr, copyInWg, copyInErrC, tleUsed, resultCh>>

\* if len(c.CopyIn) > 0 { copyIn(m, c.CopyIn) ... }: with no copy-in files
\* runOne goes on to Execve; otherwise copyIn opens the files in the
\* container (m.Open), returning its error, and starts one goroutine a file
RunOneCopyIn(i) ==
    /\ pc[i] = "copyIn"
    /\ \/ /\ cmds[i].CopyIn = 0
          /\ pc' = [pc EXCEPT ![i] = "exec"]
          /\ UNCHANGED <<fdClosed, errC, wg, written, copyInWg>>
       \/ /\ cmds[i].CopyIn > 0
          /\ copyInWg' = [copyInWg EXCEPT ![i] = cmds[i].CopyIn]
          /\ pc' = [pc EXCEPT ![i] = "copyInWait"]
          /\ UNCHANGED <<fdClosed, errC, wg, written>>
       \/ /\ cmds[i].CopyIn > 0
          /\ FailRunOne(i, "copyIn")
          /\ UNCHANGED copyInWg
    /\ UNCHANGED <<auxRest, poolVars, cmds, runPc, ms, cgs, cgBuilt, defers, result, err,
                   fileToClose, envPuts, cgDestroys,
                   wpc, rpc, child, ctxDone, waiterCtxDone, tle, cgLimit, rt, re,
                   pending, files, copyErr, usageErr, copyInErrC, tleUsed, resultCh>>

\* one copy-in goroutine: it copies its file, or writes its error to copyIn's
\* errC if there is room; the deferred wg.Done()
CopyInTask(i) ==
    /\ copyInWg[i] > 0
    /\ copyInWg' = [copyInWg EXCEPT ![i] = @ - 1]
    /\ \/ UNCHANGED copyInErrC
       \/ copyInErrC' = [copyInErrC EXCEPT ![i] =
                            IF Len(@) < 1 THEN Append(@, "copyIn") ELSE @]
    /\ UNCHANGED <<auxVars, poolVars, runVars, pc, wpc, rpc, child, ctxDone, waiterCtxDone,
                   tle, cgLimit, rt, re, pending, files, copyErr, usageErr, resultCh,
                   tleUsed>>

CopyInWgWaitSkipped(i) == TRUE

\* wg.Wait() in copyIn
CopyInWgWait(i) == copyInWg[i] = 0

\* wg.Wait(); select { case err := <-errC: return err; default: }; return nil
CopyInDone(i) ==
    /\ pc[i] = "copyInWait"
    /\ CopyInWgWait(i)
    /\ IF copyInErrC[i] # <<>>
          THEN /\ FailRunOne(i, Head(copyInErrC[i]))
               /\ copyInErrC' = [copyInErrC EXCEPT ![i] = <<>>]
          ELSE /\ pc' = [pc EXCEPT ![i] = "exec"]
               /\ UNCHANGED <<fdClosed, errC, wg, written, copyInErrC>>
    /\ UNCHANGED <<auxRest, poolVars, cmds, runPc, ms, cgs, cgBuilt, defers, result, err,
                   fileToClose, envPuts, cgDestroys,
                   wpc, rpc, child, ctxDone, waiterCtxDone, tle, cgLimit, rt, re,
                   pending, files, copyErr, usageErr, copyInWg, tleUsed, resultCh>>

\* rc := m.Execve(ctx, execParam); closeFiles(fds); fdToClose = nil; the
\* waiter and the result goroutine start; runOne returns the result channel
RunOneExec(i) ==
    /\ pc[i] = "exec"
    /\ child' = [child EXCEPT ![i] = "running"]
    /\ fdClosed' = [fdClosed EXCEPT ![i] = @ + 1]
    /\ wpc' = [wpc EXCEPT ![i] = "wait"]
    /\ rpc' = [rpc EXCEPT ![i] = "waitRc"]
    /\ pc' = [pc EXCEPT ![i] = "recv"]
    /\ UNCHANGED <<auxVars, poolVars, cmds, runPc, ms, cgs, cgBuilt, defers, result, errC, err, wg,
                   fileToClose, envPuts, cgDestroys,
                   ctxDone, waiterCtxDone, tle, cgLimit, rt, re,
                   pending, files, copyErr, usageErr, copyInWg, copyInErrC, tleUsed, resultCh>>

\* the child exits, by itself or killed by the container once ctx is cancelled
ChildExit(i) ==
    /\ child[i] = "running"
    /\ child' = [child EXCEPT ![i] = "exited"]
    /\ UNCHANGED <<auxVars, poolVars, runVars, pc, wpc, rpc, ctxDone, waiterCtxDone, tle,
                   cgLimit, rt, re, pending, files, copyErr, usageErr, copyInWg, copyInErrC, tleUsed, resultCh>>

\* tle = c.Waiter(waiterCtx, cgroupCPUUsager{cg}); cancel().  The waiter
\* returns true when the time limit is exceeded and false when waiterCtx is
\* cancelled; cancelling ctx cancels waiterCtx, which derives from it.
WaiterReturn(i) ==
    /\ wpc[i] = "wait"
    /\ \/ tle' = [tle EXCEPT ![i] = TRUE]
       \/ /\ waiterCtxDone[i]
          /\ tle' = [tle EXCEPT ![i] = FALSE]
    /\ ctxDone' = [ctxDone EXCEPT ![i] = TRUE]
    /\ waiterCtxDone' = [waiterCtxDone EXCEPT ![i] = TRUE]
    /\ wpc' = [wpc EXCEPT ![i] = "done"]
    /\ UNCHANGED <<auxVars, poolVars, runVars, pc, rpc, child,
                   cgLimit, rt, re, pending, files, copyErr, usageErr, resultCh,
                   copyInWg, copyInErrC, tleUsed>>

\* rt := <-rc; waiterCancel(); copyOutAndCollect starts its tasks
ReapChild(i) ==
    /\ rpc[i] = "waitRc"
    /\ child[i] = "exited"
    /\ rt' = [rt EXCEPT ![i] = RawResult(cmds[i].Args)]
    /\ waiterCtxDone' = [waiterCtxDone EXCEPT ![i] = TRUE]
    /\ pending' = [pending EXCEPT ![i] = CopyTasks(cmds[i])]
    /\ files' = [files EXCEPT ![i] = {}]
    /\ copyErr' = [copyErr EXCEPT ![i] = ""]
    /\ rpc' = [rpc EXCEPT ![i] = "copyOut"]
    /\ UNCHANGED <<auxVars, poolVars, runVars, pc, wpc, child, ctxDone, tle, cgLimit, re, resultCh, usageErr, copyInWg, copyInErrC, tleUsed>>

\* one task of copyOutAndCollect's errgroup finishes: it puts its file, or
\* returns its error, which the group keeps if it is the first.  A collector
\* task finishes once its buffer has closed Done (<-p.buff.Done), that is
\* once the buffer has read the end of the pipe or more than Max bytes
CopyOutTask(i, task) ==
    /\ rpc[i] = "copyOut"
    /\ task \in pending[i]
    /\ LET o == TaskOutcome(cmds[i], task)
       IN  /\ files' = [files EXCEPT ![i] = @ \cup o.file]
           /\ copyErr' = [copyErr EXCEPT ![i] = IF @ = "" THEN o.err ELSE @]
    /\ pending' = [pending EXCEPT ![i] = @ \ {task}]
    /\ UNCHANGED <<auxVars, poolVars, runVars, pc, wpc, rpc, child, ctxDone, waiterCtxDone, tle,
                   cgLimit, rt, re, resultCh, usageErr, copyInWg, copyInErrC, tleUsed>>

\* err := g.Wait(); re := Result{...}; the collect error; cg.CpuacctUsage();
\* cg.MemoryMaxUsageInBytes()
ComposeResult(i) ==
    /\ rpc[i] = "copyOut"
    /\ pending[i] = {}
    /\ \E cpuFailed, memFailed \in BOOLEAN :
          /\ re' = [re EXCEPT ![i] =
                       ReadMemory(ReadTime(CollectError(BaseResult(i, rt[i], files[i]),
                                                        copyErr[i]),
                                           cpuFailed),
                                  memFailed, cmds[i].Args.peak)]
          /\ usageErr' = [usageErr EXCEPT ![i] = cpuFailed \/ memFailed]
    /\ rpc' = [rpc EXCEPT ![i] = "waitCtx"]
    /\ UNCHANGED <<auxVars, poolVars, runVars, pc, wpc, child, ctxDone, waiterCtxDone, tle,
                   cgLimit, rt, pending, files, copyErr, resultCh,
                   copyInWg, copyInErrC, tleUsed>>

WaitCtxSkipped(i) == TRUE

\* <-ctx.Done()
WaitCtx(i) == ctxDone[i]

\* <-ctx.Done(); the tle and memory overrides; result <- re
PublishResult(i) ==
    /\ rpc[i] = "waitCtx"
    /\ WaitCtx(i)
    /\ tleUsed' = [tleUsed EXCEPT ![i] = tle[i]]
    /\ re' = [re EXCEPT ![i] = OverrideMemory(OverrideTle(@, tle[i]), cmds[i].MemoryLimit)]
    /\ resultCh' = [resultCh EXCEPT ![i] = <<re'[i]>>]
    /\ rpc' = [rpc EXCEPT ![i] = "done"]
    /\ UNCHANGED <<auxVars, poolVars, runVars, pc, wpc, child, ctxDone, waiterCtxDone, tle,
                   cgLimit, rt, pending, files, copyErr, usageErr,
                   copyInWg, copyInErrC>>

StoreIndexByArrival(i) == Cardinality({j \in CmdIds : pc[j] = "done"}) + 1

\* the index of result that the goroutine of command i writes
StoreIndex(i) == i

\* result[i] = <-r; the deferred wg.Done()
RunRecv(i) ==
    /\ pc[i] = "recv"
    /\ resultCh[i] # <<>>
    /\ result' = [result EXCEPT ![StoreIndex(i)] = Head(resultCh[i])]
    /\ resultCh' = [resultCh EXCEPT ![i] = <<>>]
    /\ wg' = wg - 1
    /\ pc' = [pc EXCEPT ![i] = "done"]
    /\ UNCHANGED <<auxVars, poolVars, cmds, runPc, ms, cgs, cgBuilt, defers, errC, err,
                   fileToClose, fdClosed, envPuts, cgDestroys,
                   wpc, rpc, child, ctxDone, waiterCtxDone, tle, cgLimit, rt, re,
                   pending, files, copyErr, usageErr, copyInWg, copyInErrC, tleUsed>>

WgWaitSkipped == TRUE

\* wg.Wait()
WgWait == wg = 0

FileToCloseKept == fileToClose

\* fileToClose = nil // already closed by runOne
FileToCloseCleared == {}

\* wg.Wait(); fileToClose = nil; select { case err = <-errC: default: }
RunWait ==
    /\ runPc = "wait"
    /\ WgWait
    /\ fileToClose' = FileToCloseCleared
    /\ err' = IF errC # <<>> THEN Head(errC) ELSE err
    /\ errC' = <<>>
    /\ runPc' = "defer"
    /\ UNCHANGED <<auxVars, poolVars, cmds, ms, cgs, cgBuilt, defers, result, wg,
                   fdClosed, envPuts, cgDestroys, oneVars>>

\* Run returns: its deferred calls run, the last registered first.
\*   Put(m): the environment is reset (the error ignored) and appended
\*   cg.Destroy()
\*   closeFiles(fileToClose)
RunDefer ==
    /\ runPc = "defer"
    /\ defers # <<>>
    /\ LET d == defers[Len(defers)]
       IN  /\ IF d.op = "Put"
                 THEN /\ env' = Append(env, d.id)
                      /\ envPuts' = [envPuts EXCEPT ![d.id] = @ + 1]
                      /\ \E failed \in BOOLEAN :
                            resetFailed' = [resetFailed EXCEPT ![d.id] = failed]
                      /\ resetCalled' = [resetCalled EXCEPT ![d.id] = TRUE]
                 ELSE UNCHANGED <<env, envPuts, resetFailed, resetCalled>>
           /\ cgDestroys' = IF d.op = "Destroy"
                               THEN [cgDestroys EXCEPT ![d.id] = @ + 1]
                               ELSE cgDestroys
           /\ fdClosed' = IF d.op = "closeFiles"
                             THEN [i \in CmdIds |->
                                     IF i \in fileToClose THEN fdClosed[i] + 1
                                                          ELSE fdClosed[i]]
                             ELSE fdClosed
    /\ defers' = SubSeq(defers, 1, Len(defers) - 1)
    /\ UNCHANGED <<auxVars, poolRest, built, cmds, runPc, ms, cgs, cgBuilt, result, errC, err, wg,
                   fileToClose, oneVars>>

\* Run has returned (result, err) to its caller
RunReturn ==
    /\ runPc = "defer"
    /\ defers = <<>>
    /\ runPc' = "returned"
    /\ UNCHANGED <<auxVars, poolVars, cmds, ms, cgs, cgBuilt, defers, result, errC, err, wg,
                   fileToClose, fdClosed, envPuts, cgDestroys, oneVars>>

NextRun ==
    \/ RunPrepareFds
    \/ RunGetEnv
    \/ RunBuildCg
    \/ RunGo
    \/ \E i \in CmdIds : RunOneLimits(i)
    \/ \E i \in CmdIds : RunOneCopyIn(i)
    \/ \E i \in CmdIds : CopyInTask(i)
    \/ \E i \in CmdIds : CopyInDone(i)
    \/ \E i \in CmdIds : RunOneExec(i)
    \/ \E i \in CmdIds : ChildExit(i)
    \/ \E i \in CmdIds : WaiterReturn(i)
    \/ \E i \in CmdIds : ReapChild(i)
    \/ \E i \in CmdIds : \E task \in pending[i] : CopyOutTask(i, task)
    \/ \E i \in CmdIds : ComposeResult(i)
    \/ \E i \in CmdIds : PublishResult(i)
    \/ \E i \in CmdIds : RunRecv(i)
    \/ RunWait
    \/ RunDefer
    \/ RunReturn

\* one Run of a group of commands
SpecRun == InitRun /\ [][NextRun]_vars

\* one Run of a single command, over every program
SpecOne == InitOne /\ [][NextRun]_vars

(***************************************************************************)
(* The HTTP server: initHTTPMux and tokenAuth.                             *)
(***************************************************************************)
\* the longest Authorization header of a request
MaxHeader == 4

\* the characters of headers and tokens
Chars == {"B", " ", "a"}

\* const bearer = "Bearer ", shortened to its first and its last character
bearer == <<"B", " ">>

\* the values of conf.AuthToken; the empty one configures no token
Tokens == {<<>>, <<"a">>, <<"a", "a">>}

\* what c.GetHeader("Authorization") can return; <<>> when the header is absent
Headers == UNION {[1..n -> Chars] : n \in 0..MaxHeader}

\* strings.HasPrefix(s, prefix)
HasPrefix(s, prefix) ==
    /\ Len(s) >= Len(prefix)
    /\ SubSeq(s, 1, Len(prefix)) = prefix

\* strings.HasPrefix(reqToken, bearer) && reqToken[len(bearer):] == token
TokenAccepted(reqToken, token) ==
    /\ HasPrefix(reqToken, bearer)
    /\ SubSeq(reqToken, Len(bearer) + 1, Len(reqToken)) = token

\* The chain of a request runs in order.  tokenAuth calls c.Next() when the
\* token is accepted and c.AbortWithStatus(http.StatusUnauthorized) when it
\* is not, and then no later handler of the chain runs; every other handler
\* runs and passes on.  The result: the status and the handlers that ran.
RECURSIVE RunChain(_, _, _, _)
RunChain(chain, k, header, ran) ==
    IF k > Len(chain)
       THEN [status |-> 200, ran |-> ran]
       ELSE IF chain[k] = "tokenAuth" /\ ~TokenAccepted(header, conf.AuthToken)
               THEN [status |-> 401, ran |-> Append(ran, chain[k])]
               ELSE RunChain(chain, k + 1, header, Append(ran, chain[k]))

\* r.GET / r.POST / Register at the engine: the route gets the middleware
\* attached so far followed by its own handler
Handle(path, handler) ==
    routes' = routes \cup {[path |-> path, handler |-> handler,
                            chain |-> Append(handlers, handler)]}

HttpIdle == UNCHANGED <<poolVars, runVars, oneVars, pfVars, histVars, procVars, sdVars>>

InitHttp ==
    /\ kind = "pool"
    /\ EmptyPool
    /\ NoRun
    /\ NoPrefork
    /\ NoHist
    /\ NoProc
    /\ NoShutdown
    /\ conf \in [AuthToken : Tokens, EnableMetrics : BOOLEAN, EnableDebug : BOOLEAN,
                 Silent : BOOLEAN]
    /\ muxPc = "new"
    /\ handlers = <<>>
    /\ routes = {}
    /\ req = [path |-> "", header |-> <<>>]
    /\ resp = [status |-> 0, ran |-> <<>>]

\* r = gin.New(); r.Use(gin.Recovery()), or r.Use(Ginzap) and r.Use(RecoveryWithZap)
MuxNew ==
    /\ muxPc = "new"
    /\ handlers' = IF conf.Silent THEN <<"Recovery">>
                                  ELSE <<"Ginzap", "RecoveryWithZap">>
    /\ muxPc' = "metrics"
    /\ UNCHANGED <<conf, routes, req, resp>>
    /\ HttpIdle

\* if conf.EnableMetrics { initGinMetrics(r) }: p.Use(r)
MuxMetrics ==
    /\ muxPc = "metrics"
    /\ handlers' = IF conf.EnableMetrics THEN Append(handlers, "metrics") ELSE handlers
    /\ muxPc' = "version"
    /\ UNCHANGED <<conf, routes, req, resp>>
    /\ HttpIdle

\* r.GET("/version", handleVersion)
MuxVersion ==
    /\ muxPc = "version"
    /\ Handle("/version", "handleVersion")
    /\ muxPc' = "auth"
    /\ UNCHANGED <<conf, handlers, req, resp>>
    /\ HttpIdle

\* if conf.AuthToken != "" { r.Use(tokenAuth(conf.AuthToken)) }
MuxAuth ==
    /\ muxPc = "auth"
    /\ handlers' = IF conf.AuthToken # <<>> THEN Append(handlers, "tokenAuth")
                                            ELSE handlers
    /\ muxPc' = "rest"
    /\ UNCHANGED <<conf, routes, req, resp>>
    /\ HttpIdle

\* restHandle.Register(r): /run and /file
MuxRest ==
    /\ muxPc = "rest"
    /\ routes' = routes \cup
          {[path |-> p, handler |-> "restHandle", chain |-> Append(handlers, "restHandle")] :
              p \in {"/run", "/file"}}
    /\ muxPc' = "ws"
    /\ UNCHANGED <<conf, handlers, req, resp>>
    /\ HttpIdle

\* wsHandle.Register(r)
MuxWs ==
    /\ muxPc = "ws"
    /\ Handle("/ws", "wsHandle")
    /\ muxPc' = "pprof"
    /\ UNCHANGED <<conf, handlers, req, resp>>
    /\ HttpIdle

\* if conf.EnableDebug { ginpprof.Register(r) }; return r
MuxPprof ==
    /\ muxPc = "pprof"
    /\ IF conf.EnableDebug THEN Handle("/debug/pprof", "pprof") ELSE UNCHANGED routes
    /\ muxPc' = "serving"
    /\ UNCHANGED <<conf, handlers, req, resp>>
    /\ HttpIdle

\* the server answers a request to one of its routes; the model follows the
\* first request
Serve(route, header) ==
    /\ muxPc = "serving"
    /\ req.path = ""
    /\ route \in routes
    /\ req' = [path |-> route.path, header |-> header]
    /\ resp' = RunChain(route.chain, 1, header, <<>>)
    /\ UNCHANGED <<conf, muxPc, handlers, routes>>
    /\ HttpIdle

NextHttp ==
    \/ MuxNew
    \/ MuxMetrics
    \/ MuxVersion
    \/ MuxAuth
    \/ MuxRest
    \/ MuxWs
    \/ MuxPprof
    \/ \E route \in routes, header \in Headers : Serve(route, header)

SpecHttp == InitHttp /\ [][NextHttp]_vars

(***************************************************************************)
(* prefork, called by main on the new environment pool before the servers  *)
(* start.                                                                  *)
(***************************************************************************)
\* the largest prefork argument
MaxPrefork == 3

PreforkIdle == UNCHANGED <<runVars, oneVars, httpVars, histVars, procVars, sdVars>>

InitPrefork ==
    /\ kind = "pool"
    /\ EmptyPool
    /\ NoRun
    /\ NoHttp
    /\ NoHist
    /\ NoProc
    /\ NoShutdown
    /\ pfPc = "start"
    /\ pfN \in (-1)..MaxPrefork
    /\ pfM = <<>>
    /\ pfI = 0

\* if prefork <= 0 { return }; m := make([]envexec.Environment, 0, prefork)
PreforkStart ==
    /\ pfPc = "start"
    /\ pfPc' = IF pfN <= 0 THEN "returned" ELSE "get"
    /\ UNCHANGED <<poolVars, pfN, pfM, pfI>>
    /\ PreforkIdle

PreforkMoreOneLess(got) == Len(got) + 1 < pfN

\* i < prefork
PreforkMore(got) == Len(got) < pfN

\* e, err := envPool.Get(); if err != nil { log.Fatalln(...) }; m = append(m, e)
PreforkGet ==
    /\ pfPc = "get"
    /\ PreforkMore(pfM)
    /\ \/ /\ Len(env) > 0
          /\ env' = DropTop(env)
          /\ putOrder' = Without(putOrder, GetTop(env))
          /\ resetCalled' = [resetCalled EXCEPT ![GetTop(env)] = FALSE]
          /\ pfM' = Append(pfM, GetTop(env))
          /\ UNCHANGED <<built, pfPc>>
       \/ /\ Len(env) = 0
          /\ built < MaxItems
          /\ built' = built + 1
          /\ pfM' = Append(pfM, built + 1)
          /\ UNCHANGED <<env, putOrder, resetCalled, pfPc>>
       \/ /\ Len(env) = 0
          /\ pfPc' = "fatal"
          /\ UNCHANGED <<env, putOrder, resetCalled, built, pfM>>
    /\ UNCHANGED <<kind, mu, destroyed, resetFailed, shutdowns, tpc, held, arg, ret, ghost,
                   pfN, pfI>>
    /\ PreforkIdle

\* the first loop ends
PreforkGetDone ==
    /\ pfPc = "get"
    /\ ~PreforkMore(pfM)
    /\ pfPc' = "put"
    /\ UNCHANGED <<poolVars, pfN, pfM, pfI>>
    /\ PreforkIdle

\* for _, e := range m { envPool.Put(e) }: Put resets e, ignoring the error,
\* and appends it to the free list
PreforkPut ==
    /\ pfPc = "put"
    /\ pfI < Len(pfM)
    /\ LET e == pfM[pfI + 1]
       IN  /\ \E failed \in BOOLEAN : resetFailed' = [resetFailed EXCEPT ![e] = failed]
           /\ resetCalled' = [resetCalled EXCEPT ![e] = TRUE]
           /\ env' = Append(env, e)
           /\ putOrder' = Append(Without(putOrder, e), e)
    /\ pfI' = pfI + 1
    /\ UNCHANGED <<kind, mu, built, destroyed, shutdowns, tpc, held, arg, ret, ghost,
                   pfPc, pfN, pfM>>
    /\ PreforkIdle

\* the second loop ends and prefork returns
PreforkReturn ==
    /\ pfPc = "put"
    /\ pfI = Len(pfM)
    /\ pfPc' = "returned"
    /\ UNCHANGED <<poolVars, pfN, pfM, pfI>>
    /\ PreforkIdle

\* main goes on to start the worker and the servers
PreforkServe ==
    /\ pfPc = "returned"
    /\ pfPc' = "serving"
    /\ UNCHANGED <<poolVars, pfN, pfM, pfI>>
    /\ PreforkIdle

\* prefork, and then the first borrower of the pool
NextPrefork ==
    \/ PreforkStart
    \/ PreforkGet
    \/ PreforkGetDone
    \/ PreforkPut
    \/ PreforkReturn
    \/ PreforkServe
    \/ (pfPc = "serving" /\ PoolStep(1))

SpecPrefork == InitPrefork /\ [][NextPrefork]_vars

(***************************************************************************)
(* A Run over the memory limits a caller can give.                         *)
(***************************************************************************)
\* the largest value of the unsigned size type
MaxU64 == 2 ^ WordBits - 1

\* Cmd.MemoryLimit: the smallest limits, the largest, and the ones around the
\* largest that leaves room for memoryLimitExtra
Limits == {0, 1, MaxU64 - memoryLimitExtra, MaxU64 - memoryLimitExtra + 1, MaxU64}

\* the peaks the cgroup can measure around a limit
PeaksAround(limit) == {p \in {limit - 1, limit, limit + 1} : p >= 0 /\ p <= MaxU64}

\* a Run of one command that exits normally, over the limits and the peaks
InitLimit ==
    \E limit \in Limits, ci \in {0, MaxCopyIn} :
        \E peak \in PeaksAround(limit) :
            InitRunWith(<<CmdWith(limit, [GoodProgram EXCEPT !.peak = peak], ci)>>, 0)

SpecLimit == InitLimit /\ [][NextRun]_vars

(***************************************************************************)
(* newProcess, process.Result and process.Usage.  The goroutine of         *)
(* newProcess is borrower 1 of the cgroup pool, which handed it cg;        *)
(* borrower 2 is another job that uses the same pool.                      *)
(***************************************************************************)
ProcIdle == UNCHANGED <<runVars, oneVars, pfVars, httpVars, histVars, sdVars>>

\* the process holds controller x: from the Get that returned it until the
\* Put of it has appended it to the free list
Own(x) == x \in held[1] \/ (arg[1] = x /\ tpc[1] \in {"put_wait", "put_cs"})

\* where the figures that cg.CPUUsage() and cg.MemoryUsage() report for
\* controller x come from: the process itself, the pool (x was put back and
\* Reset was called on it), or the job the pool handed x to since
CgRead(x) ==
    IF Own(x) THEN "own"
    ELSE IF resetCalled[x] THEN "pooled"
    ELSE "other"

\* newProcess(ch, cg, cgPool) has returned p and started its goroutine; cg is
\* nil or a controller that Get returned, cgPool is nil or the pool
InitProc ==
    \E hasCg, hasPool \in BOOLEAN :
        /\ kind = "wCgroupPool"
        /\ env = <<>>
        /\ mu = Nil
        /\ built = IF hasCg THEN 1 ELSE 0
        /\ destroyed = [x \in Items |-> 0]
        /\ resetFailed = [x \in Items |-> FALSE]
        /\ shutdowns = 0
        /\ tpc = [t \in Threads |-> "idle"]
        /\ held = [t \in Threads |-> IF hasCg /\ t = 1 THEN {1} ELSE {}]
        /\ arg = [t \in Threads |-> Nil]
        /\ ret = [t \in Threads |-> NoRet]
        /\ ghost = [t \in Threads |-> NoGhost]
        /\ putOrder = <<>>
        /\ resetCalled = [x \in Items |-> FALSE]
        /\ NoRun
        /\ NoPrefork
        /\ NoHttp
        /\ NoHist
        /\ NoShutdown
        /\ proc = [rt |-> NoUsage, done |-> FALSE, cg |-> IF hasCg THEN 1 ELSE Nil]
        /\ npg = [pc |-> "start", ch |-> <<>>, cgPool |-> hasPool, defers |-> <<>>,
                  puts |-> 0]
        /\ obs = [result |-> NoUsage, usage |-> NoUsage]

\* defer close(p.done); if cgPool != nil { defer cgPool.Put(cg) }
ProcStart ==
    /\ npg.pc = "start"
    /\ npg' = [npg EXCEPT !.pc = "recv",
                          !.defers = IF npg.cgPool THEN <<"close", "Put">> ELSE <<"close">>]
    /\ UNCHANGED <<poolVars, proc, obs>>
    /\ ProcIdle

\* the child has exited: the runner sends its result on ch
RunnerSend ==
    /\ npg.pc \in {"start", "recv"}
    /\ npg.ch = <<>>
    /\ npg' = [npg EXCEPT !.ch = <<[Time |-> "runner", Memory |-> "runner"]>>]
    /\ UNCHANGED <<poolVars, proc, obs>>
    /\ ProcIdle

\* p.rt = <-ch
ProcRecv ==
    /\ npg.pc = "recv"
    /\ npg.ch # <<>>
    /\ proc' = [proc EXCEPT !.rt = Head(npg.ch)]
    /\ npg' = [npg EXCEPT !.ch = <<>>, !.pc = "readCpu"]
    /\ UNCHANGED <<poolVars, obs>>
    /\ ProcIdle

\* if cg != nil { if t, err := cg.CPUUsage(); err == nil { p.rt.Time = t }
ProcReadCpu ==
    /\ npg.pc = "readCpu"
    /\ IF proc.cg = Nil
          THEN /\ npg' = [npg EXCEPT !.pc = "defers"]
               /\ proc' = proc
          ELSE /\ npg' = [npg EXCEPT !.pc = "readMem"]
               /\ \/ proc' = [proc EXCEPT !.rt.Time = CgRead(proc.cg)]
                  \/ proc' = proc
    /\ UNCHANGED <<poolVars, obs>>
    /\ ProcIdle

\* if m, err := cg.MemoryUsage(); err == nil { p.rt.Memory = m } }
ProcReadMem ==
    /\ npg.pc = "readMem"
    /\ npg' = [npg EXCEPT !.pc = "defers"]
    /\ \/ proc' = [proc EXCEPT !.rt.Memory = CgRead(proc.cg)]
       \/ proc' = proc
    /\ UNCHANGED <<poolVars, obs>>
    /\ ProcIdle

NextDeferredFifo(ds) == ds[1]

\* deferred calls run last registered first
NextDeferred(ds) == ds[Len(ds)]

\* the goroutine returns and runs its next deferred call:
\*   cgPool.Put(cg): wCgroupPool.Put is entered (w.mu.Lock() is next); with a
\*                   nil cg, c.Reset() is a call on a nil interface and panics
\*   close(p.done)
ProcDefer ==
    /\ npg.pc = "defers"
    /\ npg.defers # <<>>
    /\ LET call == NextDeferred(npg.defers)
           rest == Without(npg.defers, call)
       IN  IF call = "Put"
              THEN /\ npg' = [npg EXCEPT !.defers = rest, !.puts = @ + 1,
                                         !.pc = IF proc.cg = Nil THEN "panic" ELSE "put"]
                   /\ IF proc.cg = Nil
                         THEN UNCHANGED <<held, arg, tpc>>
                         ELSE /\ held' = [held EXCEPT ![1] = @ \ {proc.cg}]
                              /\ arg' = [arg EXCEPT ![1] = proc.cg]
                              /\ tpc' = [tpc EXCEPT ![1] = "put_wait"]
                   /\ proc' = proc
              ELSE /\ npg' = [npg EXCEPT !.defers = rest]
                   /\ proc' = [proc EXCEPT !.done = TRUE]
                   /\ UNCHANGED <<held, arg, tpc>>
    /\ UNCHANGED <<kind, env, mu, built, destroyed, resetFailed, shutdowns, ret, ghost,
                   putOrder, resetCalled, obs>>
    /\ ProcIdle

\* w.mu.Lock(); c.Reset(); w.cgs = append(w.cgs, c); the deferred Unlock
ProcPut ==
    /\ npg.pc = "put"
    /\ \/ PutLock(1)
       \/ PutAppend(1)

\* cgPool.Put(cg) has returned
ProcPutReturn ==
    /\ npg.pc = "put"
    /\ tpc[1] = "idle"
    /\ npg' = [npg EXCEPT !.pc = "defers"]
    /\ UNCHANGED <<poolVars, proc, obs>>
    /\ ProcIdle

\* the goroutine of newProcess has ended
ProcExit ==
    /\ npg.pc = "defers"
    /\ npg.defers = <<>>
    /\ npg' = [npg EXCEPT !.pc = "done"]
    /\ UNCHANGED <<poolVars, proc, obs>>
    /\ ProcIdle

\* p.Result(): <-p.done; return p.rt
ProcResult ==
    /\ proc.done
    /\ obs' = [obs EXCEPT !.result = proc.rt]
    /\ UNCHANGED <<poolVars, proc, npg>>
    /\ ProcIdle

\* p.Usage(), which any holder of p may call at any time:
\*   if p.cg != nil { t, _ = p.cg.CPUUsage(); m, _ = p.cg.MemoryUsage() }
\* a read that fails leaves the zero value
ProcUsage ==
    /\ IF proc.cg = Nil
          THEN obs' = [obs EXCEPT !.usage = [Time |-> "zero", Memory |-> "zero"]]
          ELSE \E t, m \in {"zero", CgRead(proc.cg)} :
                  obs' = [obs EXCEPT !.usage = [Time |-> t, Memory |-> m]]
    /\ UNCHANGED <<poolVars, proc, npg>>
    /\ ProcIdle

NextProc ==
    \/ ProcStart
    \/ RunnerSend
    \/ ProcRecv
    \/ ProcReadCpu
    \/ ProcReadMem
    \/ ProcDefer
    \/ ProcPut
    \/ ProcPutReturn
    \/ ProcExit
    \/ ProcResult
    \/ PoolStep(2)

\* one process and another job on the same cgroup pool
SpecProc == InitProc /\ [][NextProc]_vars

NextUsage ==
    \/ NextProc
    \/ ProcUsage

\* the same, with a holder of p that calls Usage()
SpecUsage == InitProc /\ [][NextUsage]_vars

(***************************************************************************)
(* The graceful shutdown of main.                                          *)
(***************************************************************************)
ShutdownIdle == UNCHANGED <<poolVars, runVars, oneVars, pfVars, httpVars, procVars,
                            histVars>>

\* main serves and waits for the interrupt signal; the gRPC server exists
\* when conf.EnableGRPC is set
InitShutdown ==
    /\ kind = "pool"
    /\ EmptyPool
    /\ NoRun
    /\ NoPrefork
    /\ NoHttp
    /\ NoHist
    /\ NoProc
    /\ mainPc = "sig"
    /\ grpcServer \in BOOLEAN
    /\ sdCtx = "none"
    /\ eg = [k \in EgTasks |-> "none"]
    /\ egErr = ""
    /\ egWait = "none"

\* <-sig; ctx, cancel := context.WithTimeout(context.TODO(), time.Second*3)
MainSignal ==
    /\ mainPc = "sig"
    /\ sdCtx' = "live"
    /\ mainPc' = "goWorker"
    /\ UNCHANGED <<grpcServer, eg, egErr, egWait>>
    /\ ShutdownIdle

\* the task main starts after task k
AfterGo(k) ==
    IF k = "worker" THEN "goHttp"
    ELSE IF k = "http" /\ grpcServer THEN "goGrpc"
    ELSE "goWait"

\* eg.Go(func() error { ... }) for the worker, the HTTP server and, if
\* grpcServer != nil, the gRPC server
MainGo(k) ==
    /\ mainPc = (IF k = "worker" THEN "goWorker" ELSE IF k = "http" THEN "goHttp" ELSE "goGrpc")
    /\ eg' = [eg EXCEPT ![k] = "running"]
    /\ mainPc' = AfterGo(k)
    /\ UNCHANGED <<grpcServer, sdCtx, egErr, egWait>>
    /\ ShutdownIdle

\* go func() { eg.Wait(); cancel() }()
MainGoWait ==
    /\ mainPc = "goWait"
    /\ egWait' = "waiting"
    /\ mainPc' = "ctxDone"
    /\ UNCHANGED <<grpcServer, sdCtx, eg, egErr>>
    /\ ShutdownIdle

\* the three seconds of ctx have passed
CtxTimeout ==
    /\ mainPc # "exited"
    /\ sdCtx = "live"
    /\ sdCtx' = "timeout"
    /\ UNCHANGED <<mainPc, grpcServer, eg, egErr, egWait>>
    /\ ShutdownIdle

\* work.Shutdown() returns, or grpcServer.GracefulStop() returns; the task
\* returns nil
TaskReturn(k) ==
    /\ mainPc # "exited"
    /\ k \in {"worker", "grpc"}
    /\ eg[k] = "running"
    /\ eg' = [eg EXCEPT ![k] = "returned"]
    /\ UNCHANGED <<mainPc, grpcServer, sdCtx, egErr, egWait>>
    /\ ShutdownIdle

\* return srv.Shutdown(ctx): nil once the connections are idle, ctx.Err()
\* once ctx is done
HttpShutdownReturn ==
    /\ mainPc # "exited"
    /\ eg["http"] = "running"
    /\ eg' = [eg EXCEPT !["http"] = "returned"]
    /\ \/ egErr' = egErr
       \/ /\ sdCtx # "live"
          /\ egErr' = IF egErr = "" THEN "ctx" ELSE egErr
    /\ UNCHANGED <<mainPc, grpcServer, sdCtx, egWait>>
    /\ ShutdownIdle

\* the tasks that eg.Wait() waits for
Started == {k \in EgTasks : eg[k] # "none"}

\* eg.Wait() returns when every task has returned; cancel()
EgWaitReturn ==
    /\ mainPc # "exited"
    /\ egWait = "waiting"
    /\ \A k \in Started : eg[k] = "returned"
    /\ egWait' = "done"
    /\ sdCtx' = IF sdCtx = "live" THEN "cancelled" ELSE sdCtx
    /\ UNCHANGED <<mainPc, grpcServer, eg, egErr>>
    /\ ShutdownIdle

\* <-ctx.Done(); main returns and the process exits
MainExit ==
    /\ mainPc = "ctxDone"
    /\ sdCtx # "live"
    /\ mainPc' = "exited"
    /\ UNCHANGED <<grpcServer, sdCtx, eg, egErr, egWait>>
    /\ ShutdownIdle

NextShutdown ==
    \/ MainSignal
    \/ \E k \in EgTasks : MainGo(k)
    \/ MainGoWait
    \/ CtxTimeout
    \/ \E k \in EgTasks : TaskReturn(k)
    \/ HttpShutdownReturn
    \/ EgWaitReturn
    \/ MainExit

\* main from the interrupt signal to the exit of the process
SpecShutdown == InitShutdown /\ [][NextShutdown]_vars

(***************************************************************************)
(* Properties of the pools.                                                *)
(***************************************************************************)
\* the other threads are idle and nobody holds a borrowed item
Quiescent(t) ==
    /\ \A u \in Threads : held[u] = {}
    /\ \A u \in Threads \ {t} : tpc[u] = "idle"

\* C2: after Get and Put calls in which every borrowed item was Put back,
\* followed by Shutdown, the free list is empty and every item the builder
\* produced has been destroyed.
C2_ShutdownLeavesNothing ==
    \A t \in Threads :
        (tpc[t] = "shutdown_ret" /\ Quiescent(t))
            => /\ Len(env) = 0
               /\ \A x \in 1..built : destroyed[x] > 0

\* C3: a Get that starts after Shutdown has returned fails with an error.
C3_GetAfterShutdownFails ==
    \A t \in Threads :
        (tpc[t] = "get_ret" /\ ghost[t].afterShutdown) => ret[t].err

\* C4: an item whose reset failed is destroyed and is not in the free list,
\* and no Get returns it.
C4_FailedResetNotPooled ==
    /\ \A i \in 1..Len(env) : ~resetFailed[env[i]]
    /\ \A x \in Items :
          (resetFailed[x] /\ \A t \in Threads : arg[t] # x) => destroyed[x] > 0
    /\ \A t \in Threads :
          (tpc[t] = "get_ret" /\ ~ret[t].err) => ~resetFailed[ret[t].item]

\* C5: under any interleaving of Get and Put, no item is held by two
\* borrowers at the same time and no item is twice in the free list.
C5_ExclusiveBorrow ==
    /\ \A t1, t2 \in Threads : t1 # t2 => held[t1] \cap held[t2] = {}
    /\ NoDup(env)

\* one thread waits for the lock in Put while another is inside Get, between
\* reading the top of the list and removing it
C5_Witness ==
    \E t1, t2 \in Threads :
        /\ tpc[t1] = "put_wait"
        /\ tpc[t2] = "get_pop"
        /\ arg[t1] # Nil
        /\ arg[t2] # Nil

\* C6: Get on a non-empty free list returns the most recently Put item still
\* in the list without calling the builder; Get on an empty list calls the
\* builder exactly once and returns its item, and when the builder fails it
\* returns the error and leaves the free list unchanged.
C6_GetLifoOrBuild ==
    \A t \in Threads :
        tpc[t] = "get_ret" =>
            IF ghost[t].sawEmpty
               THEN /\ ghost[t].builds = 1
                    /\ ret[t].err => (ret[t].item = Nil /\ env = ghost[t].envAtLock)
                    /\ ~ret[t].err => (ret[t].item = built /\ destroyed[ret[t].item] = 0)
               ELSE /\ ghost[t].builds = 0
                    /\ ~ret[t].err
                    /\ ret[t].item = ghost[t].expect
                    /\ env = DropTop(ghost[t].envAtLock)

\* a Get that found two items in the free list has returned
C6_Witness ==
    \E t \in Threads :
        /\ tpc[t] = "get_ret"
        /\ Len(ghost[t].envAtLock) >= 2
        /\ ret[t].item = ghost[t].expect

(***************************************************************************)
(* Properties of Run and runOne.                                           *)
(***************************************************************************)
\* a goroutine of command i (runOne itself, its waiter, its result
\* goroutine) or its child is still running
Using(i) ==
    \/ pc[i] \in {"runOne", "copyIn", "copyInWait", "exec"}
    \/ copyInWg[i] > 0
    \/ wpc[i] = "wait"
    \/ rpc[i] \in {"waitRc", "copyOut", "waitCtx"}
    \/ child[i] = "running"

\* C1: on every return path of Run, every environment it obtained has been
\* Put back exactly once and every cgroup it built destroyed exactly once by
\* the time it returns, and none is returned or destroyed while a goroutine
\* of its command is still running.
C1_RunReleasesAll ==
    /\ \A k \in 1..Len(ms) :
          /\ envPuts[ms[k]] <= 1
          /\ envPuts[ms[k]] = 1 => (runPc \in {"defer", "returned"} /\ ~Using(k))
    /\ \A k \in 1..Len(cgs) :
          /\ cgDestroys[cgs[k]] <= 1
          /\ cgDestroys[cgs[k]] = 1 => (runPc \in {"defer", "returned"} /\ ~Using(k))
    /\ NoDup(ms)
    /\ NoDup(cgs)
    /\ \A x \in Items : x \notin Range(ms) => envPuts[x] = 0
    /\ \A x \in DOMAIN cgDestroys : x \notin Range(cgs) => cgDestroys[x] = 0
    /\ runPc = "returned" =>
          /\ \A k \in 1..Len(ms) : envPuts[ms[k]] = 1
          /\ \A k \in 1..Len(cgs) : cgDestroys[cgs[k]] = 1
          /\ \A i \in CmdIds : ~Using(i)

\* Run has returned after one command failed before its child was started
\* and another ran its child under a waiter that reported the time limit
C1_Witness ==
    /\ runPc = "returned"
    /\ \E i, j \in CmdIds : pc[i] = "failed" /\ pc[j] = "done" /\ tle[j]
    /\ \A k \in 1..Len(ms) : envPuts[ms[k]] = 1
    /\ Len(cgs) = Len(cmds)

\* C7: the result slice has len(Cmds) elements and element i is the result
\* of Cmds[i], whatever order the goroutines finish in.
C7_ResultsInOrder ==
    runPc \in {"wait", "defer", "returned"} /\ result # <<>> =>
        /\ Len(result) = Len(cmds)
        /\ \A i \in CmdIds :
              /\ pc[i] = "done" => (result[i] = re[i] /\ result[i].cmd = i)
              /\ pc[i] # "done" => result[i] = ZeroResult

\* a later command has stored its result while an earlier one still runs
C7_Witness ==
    \E i, j \in CmdIds :
        /\ i < j
        /\ pc[j] = "done"
        /\ pc[i] = "recv"
        /\ result[j].cmd = j

\* the precedence of the published statuses, low to high
Rank(st) ==
    CASE st = "Accepted" -> 1
      [] st = "RuntimeError" -> 2
      [] st = "MemoryLimitExceeded" -> 3
      [] st = "TimeLimitExceeded" -> 4
      [] st = "OutputLimitExceeded" -> 5
      [] st = "DangerousSyscall" -> 6
      [] st = "FileError" -> 7
      [] st = "InternalError" -> 8
      [] OTHER -> 0

\* the statuses that apply to command i
Applicable(i) ==
    {convertStatus(cmds[i].Args.status)}
    \cup (IF tle[i] THEN {"TimeLimitExceeded"} ELSE {})
    \cup (IF ~usageErr[i] /\ cmds[i].Args.peak > cmds[i].MemoryLimit
             THEN {"MemoryLimitExceeded"} ELSE {})
    \cup (IF \E k \in 1..Len(cmds[i].Collectors) : cmds[i].Args.out > cmds[i].Collectors[k]
             THEN {"OutputLimitExceeded"} ELSE {})
    \cup (IF cmds[i].Args.file # "regular" \/ usageErr[i] THEN {"InternalError"} ELSE {})

Highest(S) == CHOOSE st \in S : \A o \in S : Rank(o) <= Rank(st)

\* C8: when reading CPU time or peak memory from the cgroup failed, the
\* published status is InternalError.
C8_ReadbackFailureIsInternalError ==
    \A i \in CmdIds :
        (rpc[i] = "done" /\ usageErr[i]) => re[i].Status = "InternalError"

\* C9: the published status is the highest-precedence status among the ones
\* that apply to the command.
C9_StatusPrecedence ==
    \A i \in CmdIds :
        rpc[i] = "done" => re[i].Status = Highest(Applicable(i))

\* C10: what is published under a collector's name is at most its limit, and
\* when the producer wrote more than the limit the published status is
\* OutputLimitExceeded.
C10_CollectorBounded ==
    \A i \in CmdIds :
        rpc[i] = "done" =>
            \A k \in 1..Len(cmds[i].Collectors) :
                /\ \A f \in re[i].Files :
                      f.name = <<"pipe", k>> => f.len <= cmds[i].Collectors[k]
                /\ cmds[i].Args.out > cmds[i].Collectors[k]
                      => re[i].Status = "OutputLimitExceeded"

\* C11: when the copy-out path of a command names something that is not a
\* regular file, the published status of the command is FileError.
C11_NonRegularCopyOutIsFileError ==
    \A i \in CmdIds :
        (rpc[i] = "done" /\ cmds[i].Args.file = "symlink")
            => re[i].Status = "FileError"

\* C12: within one command, every copy-in task has finished before the child
\* is started, the child has exited before any copy-out or collector task
\* starts, and all of these tasks have finished before the result is
\* published; across the group, prepareFds has returned before any child is
\* started.
C12_PhasesOrdered ==
    /\ \A i \in CmdIds :
          /\ child[i] # "none" => (copyInWg[i] = 0 /\ pc[i] \notin {"copyIn", "copyInWait"})
          /\ (pending[i] # {} \/ files[i] # {} \/ copyErr[i] # "") => child[i] = "exited"
          /\ rpc[i] \in {"copyOut", "waitCtx", "done"} => child[i] = "exited"
          /\ (resultCh[i] # <<>> \/ rpc[i] = "done") => pending[i] = {}
    /\ (\E i \in CmdIds : child[i] # "none") => (runPc # "start" /\ runPc # "none")

\* a command with copy-in files has published a result that carries the
\* file it copied out
C12_Witness ==
    \E i \in CmdIds :
        /\ cmds[i].CopyIn > 0
        /\ rpc[i] = "done"
        /\ \E f \in re[i].Files : f.name = <<"file", 1>>

\* C13: once the result goroutine has received the child's exit, the
\* waiter's context is cancelled; once the waiter has returned and called
\* cancel, the child's exec context is cancelled; and in both orders a result
\* is published only after the child has exited and the waiter has returned,
\* the tle it was composed with being the value the waiter returned.
C13_TerminationOrdering ==
    \A i \in CmdIds :
        /\ rpc[i] \in {"copyOut", "waitCtx", "done"} => waiterCtxDone[i]
        /\ wpc[i] = "done" => (ctxDone[i] /\ waiterCtxDone[i])
        /\ ctxDone[i] => wpc[i] = "done"
        /\ rpc[i] = "done" =>
              /\ child[i] = "exited"
              /\ wpc[i] = "done"
              /\ tleUsed[i] = tle[i]

\* two commands have published: the waiter of one returned false after the
\* child's exit cancelled it, the waiter of the other returned true
C13_Witness ==
    \E i, j \in CmdIds :
        /\ rpc[i] = "done" /\ ~tle[i] /\ ~tleUsed[i]
        /\ rpc[j] = "done" /\ tle[j] /\ tleUsed[j]

(***************************************************************************)
(* Progress of a Run.                                                      *)
(***************************************************************************)
\* the steps the goroutines of Run and runOne take by themselves, and the
\* return of the waiter, whose wall-clock timer fires if nothing else ends
\* it.  Not among them: the child exiting by itself, and a collector task,
\* which waits for its buffer's Done (<-p.buff.Done) and is given neither
\* runOne's ctx nor a timer.
ProgramStep ==
    \/ RunPrepareFds
    \/ RunGetEnv
    \/ RunBuildCg
    \/ RunGo
    \/ \E i \in CmdIds : RunOneLimits(i)
    \/ \E i \in CmdIds : RunOneCopyIn(i)
    \/ \E i \in CmdIds : CopyInTask(i)
    \/ \E i \in CmdIds : CopyInDone(i)
    \/ \E i \in CmdIds : RunOneExec(i)
    \/ \E i \in CmdIds : WaiterReturn(i)
    \/ \E i \in CmdIds : ReapChild(i)
    \/ \E i \in CmdIds : \E task \in pending[i] :
          task[1] = "file" /\ CopyOutTask(i, task)
    \/ \E i \in CmdIds : ComposeResult(i)
    \/ \E i \in CmdIds : PublishResult(i)
    \/ \E i \in CmdIds : RunRecv(i)
    \/ RunWait
    \/ RunDefer
    \/ RunReturn

\* m.Execve(ctx, ...): the container ends the child once ctx is cancelled
\* and reports its exit
ChildKilled == \E i \in CmdIds : ctxDone[i] /\ ChildExit(i)

\* one Run of a group of commands whose goroutines keep being scheduled
SpecLive ==
    /\ InitRun
    /\ [][NextRun]_vars
    /\ WF_vars(ProgramStep)
    /\ WF_vars(ChildKilled)

\* C14: every command whose child was started eventually publishes its
\* result.
C14_StartedEventuallyPublishes ==
    \A i \in 1..NCmds : (child[i] = "running") ~> (rpc[i] = "done")

\* C15: when a command fails before its child is spawned, the element of
\* the result at its position has status InternalError, time 0 and memory 0.
C15_FailedSpawnIsInternalError ==
    \A i \in CmdIds :
        (runPc = "returned" /\ result # <<>> /\ pc[i] = "failed")
            => /\ result[i].Status = "InternalError"
               /\ result[i].Time = "zero"
               /\ result[i].Memory = 0

\* C16: at the step in which the runOne of one command fails before spawning
\* its child, every sibling whose child is running is cancelled: its
\* waiter's context is done.
C16_FailureCancelsSiblings ==
    [][\A j \in CmdIds :
          (pc[j] # "failed" /\ pc'[j] = "failed")
              => \A i \in CmdIds \ {j} :
                    child[i] = "running" => waiterCtxDone'[i]]_vars

(***************************************************************************)
(* Properties of the HTTP server.                                          *)
(***************************************************************************)
\* the handler registered for a path
HandlerOf(path) == (CHOOSE r \in routes : r.path = path).handler

\* C17: with an auth token configured, a request to any route whose
\* Authorization header is not "Bearer " followed by the token is answered
\* with 401, and the handler of the route has not run.
C17_EveryRouteRequiresToken ==
    (muxPc = "serving" /\ req.path # "" /\ conf.AuthToken # <<>>
        /\ req.header # bearer \o conf.AuthToken)
        => /\ resp.status = 401
           /\ HandlerOf(req.path) \notin Range(resp.ran)

\* the same, for the routes registered after the token middleware
LaterRoutesRequireToken ==
    (muxPc = "serving" /\ req.path \notin {"", "/version"} /\ conf.AuthToken # <<>>
        /\ req.header # bearer \o conf.AuthToken)
        => /\ resp.status = 401
           /\ HandlerOf(req.path) \notin Range(resp.ran)

(***************************************************************************)
(* Properties of prefork.                                                  *)
(***************************************************************************)
\* C18: when prefork(N) returns on a pool that was empty, with N > 0 the
\* builder has been called exactly N times and the free list holds exactly N
\* distinct items, on each of which Reset has been called; with N <= 0 the
\* builder has not been called and the pool is as it was.
C18_PreforkBuildsN ==
    pfPc = "returned" =>
        IF pfN > 0
           THEN /\ built = pfN
                /\ Len(env) = pfN
                /\ NoDup(env)
                /\ \A k \in 1..Len(env) : resetCalled[env[k]]
                /\ \A t \in Threads : held[t] = {}
           ELSE /\ built = 0
                /\ env = <<>>
                /\ \A x \in Items : ~resetCalled[x]

\* prefork has returned after building more than one environment
C18_Witness ==
    /\ pfPc = "returned"
    /\ pfN > 1
    /\ Len(env) = pfN
    /\ built = pfN

\* C19: for every memory limit L, the limit programmed into the cgroup is
\* L + 16384 and so not smaller than L, and MemoryLimitExceeded is decided by
\* comparing the measured peak with L itself.
C19_HeadroomAboveLimit ==
    \A i \in CmdIds :
        /\ pc[i] \in {"copyIn", "copyInWait", "exec", "recv", "done"} =>
              /\ cgLimit[i] = cmds[i].MemoryLimit + memoryLimitExtra
              /\ cgLimit[i] >= cmds[i].MemoryLimit
        /\ (rpc[i] = "done" /\ ~usageErr[i]) =>
              (re[i].Status = "MemoryLimitExceeded"
                  <=> cmds[i].Args.peak > cmds[i].MemoryLimit)

\* the same, for the limits that leave room for memoryLimitExtra
HeadroomWithoutWrap ==
    \A i \in CmdIds :
        cmds[i].MemoryLimit <= MaxU64 - memoryLimitExtra =>
            /\ pc[i] \in {"copyIn", "copyInWait", "exec", "recv", "done"} =>
                  /\ cgLimit[i] = cmds[i].MemoryLimit + memoryLimitExtra
                  /\ cgLimit[i] >= cmds[i].MemoryLimit
            /\ (rpc[i] = "done" /\ ~usageErr[i]) =>
                  (re[i].Status = "MemoryLimitExceeded"
                      <=> cmds[i].Args.peak > cmds[i].MemoryLimit)

\* the commands whose descriptors prepareFds has handed to Run
Prepared ==
    IF runPc \in {"none", "start"} THEN {}
    ELSE IF err = "prepareFds" THEN fileToClose
    ELSE CmdIds

\* C20: every descriptor prepared for a Run is closed exactly once: by Run's
\* deferred close when Run returns before its goroutines are started, by
\* runOne's deferred close when runOne fails before the child is started, or
\* by runOne right after the child is started; none is closed twice and none
\* is open when Run returns.
C20_FilesClosedOnce ==
    /\ \A i \in CmdIds :
          /\ fdClosed[i] <= 1
          /\ i \notin Prepared => fdClosed[i] = 0
          /\ (pc[i] = "failed" \/ child[i] # "none") => fdClosed[i] = 1
          /\ fdClosed[i] = 1 =>
                \/ pc[i] = "failed"
                \/ child[i] # "none"
                \/ (runPc \in {"defer", "returned"} /\ pc[i] = "none")
    /\ runPc = "returned" => \A i \in Prepared : fdClosed[i] = 1

\* Run has returned after the runOne of one command failed before its child
\* was started and the child of another was started and ran
C20_Witness ==
    /\ runPc = "returned"
    /\ \E i, j \in CmdIds :
          /\ pc[i] = "failed" /\ child[i] = "none" /\ fdClosed[i] = 1
          /\ pc[j] = "done" /\ child[j] = "exited" /\ fdClosed[j] = 1

(***************************************************************************)
(* C21.  The error channel of Run.                                         *)
(***************************************************************************)
\* the goroutines of Run whose runOne returned an error
Failed == {i \in CmdIds : pc[i] = "failed"}

\* C21: when several runOne calls of one Run fail, the error channel holds
\* the error that was written first and later ones are dropped; Run returns
\* that error; and no failing goroutine waits on writeErrorC: each one that
\* failed has reported and has called wg.Done, so wg counts only the
\* goroutines that are still at work.
C21_FirstErrorWins ==
    /\ Len(written) = Cardinality(Failed)
    /\ errC # <<>> => written # <<>> /\ errC = <<written[1]>>
    /\ runPc = "wait" => wg = Cardinality(CmdIds \ (Failed \cup {i \in CmdIds : pc[i] = "done"}))
    /\ (runPc \in {"defer", "returned"} /\ written # <<>>) => err = written[1]

\* Run has returned the first of two different errors
C21_Witness ==
    /\ runPc = "returned"
    /\ Len(written) >= 2
    /\ written[1] # written[2]
    /\ err = written[1]

\* when every goroutine of Run has failed, Run returns
AllFailedRunReturns == (runPc = "wait" /\ Failed = CmdIds) ~> (runPc = "returned")

(***************************************************************************)
(* C22, C24.  The controller of a process.                                 *)
(***************************************************************************)
\* figures that come from the runner or from the process's own controller
OwnFigures == [Time : {"none", "runner", "own"}, Memory : {"none", "runner", "own"}]

\* C22: newProcess reads the controller's CPU time and peak memory after the
\* runner result has been received and before the controller is Put back;
\* a process with a controller and a pool Puts it back exactly once, and
\* closes Done only after that Put has returned; so what Result() returns
\* never comes from a controller that was put back.
C22_UsageReadBeforePut ==
    /\ npg.pc \in {"readCpu", "readMem"} =>
          /\ proc.rt # NoUsage
          /\ npg.puts = 0
          /\ ~proc.done
          /\ proc.cg # Nil => Own(proc.cg)
    /\ (proc.cg # Nil /\ npg.cgPool) =>
          /\ npg.puts <= 1
          /\ proc.done => npg.puts = 1 /\ ~Own(proc.cg)
    /\ proc.rt \in OwnFigures
    /\ obs.result \in OwnFigures
    /\ obs.result # NoUsage => proc.done

\* Result() has returned the figures of the process's controller, which
\* another job has been handed since
C22_Witness ==
    /\ proc.done
    /\ npg.cgPool
    /\ obs.result = [Time |-> "own", Memory |-> "own"]
    /\ proc.cg \in held[2]

\* C24: Usage() never reads a controller that has been returned to the
\* pool: what it reports comes from the process's own controller.
C24_UsageNeverReadsReturned ==
    /\ obs.usage.Time \in {"none", "zero", "own"}
    /\ obs.usage.Memory \in {"none", "zero", "own"}

(***************************************************************************)
(* C23.  The exit of the server.                                           *)
(***************************************************************************)
\* C23: after an interrupt signal, the process does not exit before the
\* worker's Shutdown has returned, in whatever order the shutdown tasks
\* finish.
C23_ExitAfterWorkerShutdown == mainPc = "exited" => eg["worker"] = "returned"

\* when main exits because cancel() was called, every task has returned
ExitOnCancelAfterAllTasks ==
    (mainPc = "exited" /\ sdCtx = "cancelled") => \A k \in Started : eg[k] = "returned"

(***************************************************************************)
(* C25.  Destroyed items.                                                  *)
(***************************************************************************)
\* no item has been destroyed more than once
DestroyedAtMostOnce == \A x \in Items : destroyed[x] <= 1

\* what a Get is returning has not been destroyed
GetReturnsLive == \A t \in Threads : ret[t].item # Nil => destroyed[ret[t].item] = 0

\* C25: after any sequence of Get, Put, Release and Shutdown calls on a pool,
\* no item is destroyed more than once and no destroyed item is returned by
\* Get.
C25_DestroyedOnceNeverReturned == DestroyedAtMostOnce /\ GetReturnsLive

====
